---- MODULE Spec2Model ----
(***************************************************************************)
(* Model of the flash-sale purchase engine (AppService, app.service.ts):   *)
(* admission gate (circuit breaker, rate limiter, pre-validation), bounded *)
(* FIFO purchase queue, batch processor with its atomic check-and-         *)
(* decrement step, and configureFlashSale.                                 *)
(*                                                                         *)
(* The service runs on the JavaScript event loop.  Every synchronous       *)
(* stretch of code is one action; an `await` ends the action and its       *)
(* continuation is a later action.  Continuations of different async       *)
(* functions, timer callbacks and new calls interleave freely.             *)
(***************************************************************************)
EXTENDS Integers, Sequences, FiniteSets, TLC

\* ---------------------------------------------------------------- bounds
Users == {"u1", "u2"}
MaxRequests == 4          \* attemptPurchase calls in one behaviour
MaxBreakerRequests == 8   \* attemptPurchase calls in one behaviour of BreakerSpec
MaxGateRequests == 2      \* attemptPurchase calls in one behaviour of GateSpec
MaxReadRequests == 2      \* attemptPurchase calls in one behaviour of ReadSpec
MaxConfigs == 1           \* configureFlashSale calls in one behaviour
MaxGateConfigs == 2       \* value of epoch at which FrameSpec stops reconfiguring
MaxTicks == 2             \* clock advances in one behaviour
TimeStep == 30000         \* milliseconds per clock advance
QueueCapacity == 2        \* maxQueueSize: 10000 in the source, scaled
BatchQueueCapacity == 3   \* maxQueueSize in BatchSpec, above BatchSize
MaxBatchRequests == 4     \* attemptPurchase calls in one behaviour of BatchSpec
BatchSize == 2            \* 50 in the source, scaled
maxRequestsPerMinute == 3 \* 10 in the source, scaled
maxTrackedUsers == 1      \* 10000 in the source, scaled
\* the inputs of configureFlashSale: one window that is upcoming at time 0,
\* active after one clock advance and ended after two
StockChoices == {-1, 0, 1, 2}
SaleWindows == { [startTime |-> 30000, endTime |-> 45000] }

\* ------------------------------------------------------ program constants
failureThreshold == 5
resetTimeout == 30000
rateWindow == 60000
defaultTotalStock == 100
defaultStartOffset == 60000
defaultDuration == 3600000

VARIABLES
  now,                    \* Date.now()
  flashSaleConfig,        \* [startTime, endTime, totalStock]
  availableStock,
  userPurchases,          \* Map userId -> [timestamp, success]
  purchaseQueue,          \* sequence of PurchaseRequest
  maxQueueSize,           \* readonly field: the capacity of purchaseQueue
  isProcessingQueue,
  userRequestTimestamps,  \* Map userId -> sequence of timestamps
  circuitBreaker,         \* [failures, lastFailureTime, state]
  metrics,
  passes,                 \* processQueue invocations suspended at their await
  immediates,             \* pending setImmediate(() => processQueue())
  calls,                  \* attemptPurchase invocations, by call number
  epoch,                  \* number of configureFlashSale calls so far
  hist,                   \* per call: what happened to its queue entry
  lastRead                \* what the latest read operation returned

vars == << now, flashSaleConfig, availableStock, userPurchases, purchaseQueue,
           isProcessingQueue, userRequestTimestamps, circuitBreaker, metrics,
           passes, immediates, calls, epoch, hist, lastRead, maxQueueSize >>

\* ---------------------------------------------------------------- helpers
\* no read operation has returned yet
NoRead == [op |-> "none"]

Min(a, b) == IF a < b THEN a ELSE b

Abs(a) == IF a < 0 THEN -a ELSE a

RECURSIVE GCD(_, _)
GCD(a, b) == IF b = 0 THEN a ELSE GCD(b, a % b)

\* Map.set(k, v)
MapSet(m, k, v) == [x \in (DOMAIN m) \cup {k} |-> IF x = k THEN v ELSE m[x]]

EmptyMap == [x \in {} |-> 0]

\* a number held as the fraction num/den in lowest terms; den = 0 stands for
\* the IEEE results of a division by zero (num > 0: Infinity, num < 0:
\* -Infinity, num = 0: NaN)
Frac(n, d) ==
  IF d = 0 THEN [num |-> IF n > 0 THEN 1 ELSE IF n < 0 THEN -1 ELSE 0, den |-> 0]
  ELSE LET g == GCD(Abs(n), Abs(d))
           s == IF d < 0 THEN -1 ELSE 1
       IN [num |-> s * (n \div g), den |-> s * (d \div g)]

Zero == [num |-> 0, den |-> 1]

InitialMetrics ==
  [ totalRequests |-> 0, successfulPurchases |-> 0, failedPurchases |-> 0,
    queuedRequests |-> 0, averageProcessingTime |-> Zero, peakQueueSize |-> 0 ]

\* the part of the service state that processQueue and its callees touch
Svc ==
  [ availableStock |-> availableStock, userPurchases |-> userPurchases,
    purchaseQueue |-> purchaseQueue, isProcessingQueue |-> isProcessingQueue,
    metrics |-> metrics, passes |-> passes, immediates |-> immediates,
    hist |-> hist ]

Install(s) ==
  /\ availableStock' = s.availableStock
  /\ userPurchases' = s.userPurchases
  /\ purchaseQueue' = s.purchaseQueue
  /\ isProcessingQueue' = s.isProcessingQueue
  /\ metrics' = s.metrics
  /\ passes' = s.passes
  /\ immediates' = s.immediates
  /\ hist' = s.hist

\* ------------------------------------------------------------ rate limiter
\* cleanupRateLimitCache that also deletes identities with one live timestamp
cleanupRateLimitCache_DropsLive(m) ==
  LET recent(u) == SelectSeq(m[u], LAMBDA ts : now - ts < rateWindow)
      entriesToDelete == { u \in DOMAIN m : Len(recent(u)) <= 1 }
  IN [u \in (DOMAIN m) \ entriesToDelete |-> recent(u)]

cleanupRateLimitCache(m) ==
  LET recent(u) == SelectSeq(m[u], LAMBDA ts : now - ts < rateWindow)
      entriesToDelete == { u \in DOMAIN m : Len(recent(u)) = 0 }
  IN [u \in (DOMAIN m) \ entriesToDelete |-> recent(u)]

\* checkRateLimit that counts every stored timestamp, old ones too
checkRateLimit_NoExpiry(userId) ==
  LET userTimestamps == IF userId \in DOMAIN userRequestTimestamps
                        THEN userRequestTimestamps[userId] ELSE << >>
      recentTimestamps == SelectSeq(userTimestamps, LAMBDA ts : now - ts < rateWindow)
  IN IF Len(userTimestamps) >= maxRequestsPerMinute
     THEN [ok |-> FALSE, map |-> userRequestTimestamps]
     ELSE LET saved == MapSet(userRequestTimestamps, userId,
                              Append(recentTimestamps, now))
          IN [ok |-> TRUE,
              map |-> IF Cardinality(DOMAIN saved) > maxTrackedUsers
                      THEN cleanupRateLimitCache(saved) ELSE saved]

\* checkRateLimit with the limit test off by one (> instead of >=)
checkRateLimit_OffByOne(userId) ==
  LET userTimestamps == IF userId \in DOMAIN userRequestTimestamps
                        THEN userRequestTimestamps[userId] ELSE << >>
      recentTimestamps == SelectSeq(userTimestamps, LAMBDA ts : now - ts < rateWindow)
  IN IF Len(recentTimestamps) > maxRequestsPerMinute
     THEN [ok |-> FALSE, map |-> userRequestTimestamps]
     ELSE LET saved == MapSet(userRequestTimestamps, userId,
                              Append(recentTimestamps, now))
          IN [ok |-> TRUE,
              map |-> IF Cardinality(DOMAIN saved) > maxTrackedUsers
                      THEN cleanupRateLimitCache(saved) ELSE saved]

\* checkRateLimit that records the request before it tests the limit
checkRateLimit_RecordsRejected(userId) ==
  LET userTimestamps == IF userId \in DOMAIN userRequestTimestamps
                        THEN userRequestTimestamps[userId] ELSE << >>
      recentTimestamps == SelectSeq(userTimestamps, LAMBDA ts : now - ts < rateWindow)
      saved == MapSet(userRequestTimestamps, userId, Append(recentTimestamps, now))
  IN IF Len(recentTimestamps) >= maxRequestsPerMinute
     THEN [ok |-> FALSE, map |-> saved]
     ELSE [ok |-> TRUE,
           map |-> IF Cardinality(DOMAIN saved) > maxTrackedUsers
                   THEN cleanupRateLimitCache(saved) ELSE saved]

\* returns [ok, map]: the boolean result and the timestamp map afterwards
checkRateLimit(userId) ==
  LET userTimestamps == IF userId \in DOMAIN userRequestTimestamps
                        THEN userRequestTimestamps[userId] ELSE << >>
      recentTimestamps == SelectSeq(userTimestamps, LAMBDA ts : now - ts < rateWindow)
  IN IF Len(recentTimestamps) >= maxRequestsPerMinute
     THEN [ok |-> FALSE, map |-> userRequestTimestamps]
     ELSE LET saved == MapSet(userRequestTimestamps, userId,
                              Append(recentTimestamps, now))
          IN [ok |-> TRUE,
              map |-> IF Cardinality(DOMAIN saved) > maxTrackedUsers
                      THEN cleanupRateLimitCache(saved) ELSE saved]

\* --------------------------------------------------------- circuit breaker
\* handleFailure with the threshold test off by one (> instead of >=)
handleFailureBreaker_LateOpen(cb) ==
  LET f == cb.failures + 1
  IN [ failures |-> f, lastFailureTime |-> now,
       state |-> IF f > failureThreshold THEN "OPEN" ELSE cb.state ]

\* handleFailure that stamps the time but does not count the failure
handleFailureBreaker_NoCount(cb) ==
  [ failures |-> cb.failures, lastFailureTime |-> now, state |-> cb.state ]

handleFailureBreaker(cb) ==
  LET f == cb.failures + 1
  IN [ failures |-> f, lastFailureTime |-> now,
       state |-> IF f >= failureThreshold THEN "OPEN" ELSE cb.state ]

handleFailureMetrics(m) == [m EXCEPT !.failedPurchases = @ + 1]

updateAverageProcessingTime(m, newTime) ==
  LET totalRequests == m.totalRequests
      avg == m.averageProcessingTime
  IN [m EXCEPT !.averageProcessingTime =
        Frac(avg.num * (totalRequests - 1) + newTime * avg.den,
             avg.den * totalRequests)]

\* ---------------------------------------------------------- batch processor
\* revalidate with the stock test off by one (< instead of <=)
revalidate_StockOffByOne(s, userId) ==
  IF now > flashSaleConfig.endTime THEN "SaleEnded"
  ELSE IF userId \in DOMAIN s.userPurchases /\ s.userPurchases[userId].success
    THEN "AlreadyPurchased"
  ELSE IF s.availableStock < 0 THEN "SoldOut"
  ELSE "ok"

\* revalidate without the already-purchased test
revalidate_NoDuplicateCheck(s, userId) ==
  IF now > flashSaleConfig.endTime THEN "SaleEnded"
  ELSE IF s.availableStock <= 0 THEN "SoldOut"
  ELSE "ok"

\* revalidate that looks at the ledger before the end of the sale
revalidate_LedgerBeforeEnd(s, userId) ==
  IF userId \in DOMAIN s.userPurchases /\ s.userPurchases[userId].success
    THEN "AlreadyPurchased"
  ELSE IF now > flashSaleConfig.endTime THEN "SaleEnded"
  ELSE IF s.availableStock <= 0 THEN "SoldOut"
  ELSE "ok"

\* the three re-validations of processPurchaseAtomic, in order: the kind of the
\* first that fails, or "ok"
revalidate(s, userId) ==
  IF now > flashSaleConfig.endTime THEN "SaleEnded"
  ELSE IF userId \in DOMAIN s.userPurchases /\ s.userPurchases[userId].success
    THEN "AlreadyPurchased"
  ELSE IF s.availableStock <= 0 THEN "SoldOut"
  ELSE "ok"

\* criticalSection that decrements without inserting the record
criticalSection_NoRecord(s, userId) ==
  [s EXCEPT !.availableStock = @ - 1]

\* criticalSection that decrements twice
criticalSection_DoubleDecrement(s, userId) ==
  [s EXCEPT !.availableStock = @ - 2,
            !.userPurchases = MapSet(@, userId, [timestamp |-> now, success |-> TRUE])]

\* "THE CRITICAL PART": the decrement and the record insertion
criticalSection(s, userId) ==
  [s EXCEPT !.availableStock = @ - 1,
            !.userPurchases = MapSet(@, userId, [timestamp |-> now, success |-> TRUE])]

\* processPurchaseAtomic that grants without counting the success
processPurchaseAtomic_NoCount(s, userId, id) ==
  LET seen == [s.hist EXCEPT ![id].processed = @ + 1, ![id].procEpoch = epoch]
      verdict == revalidate(s, userId)
  IN IF verdict # "ok"
     THEN [ s |-> [s EXCEPT !.metrics.failedPurchases = @ + 1,
                            !.hist = [seen EXCEPT ![id].outcome = verdict]],
            result |-> verdict ]
     ELSE [ s |-> [criticalSection(s, userId) EXCEPT
                     !.hist = [seen EXCEPT ![id].outcome = "Success"]],
            result |-> "Success" ]

\* processPurchaseAtomic(userId) on the state s, for the queue entry of call id;
\* returns [s, result]
processPurchaseAtomic(s, userId, id) ==
  LET seen == [s.hist EXCEPT ![id].processed = @ + 1, ![id].procEpoch = epoch]
      verdict == revalidate(s, userId)
  IN IF verdict # "ok"
     THEN [ s |-> [s EXCEPT !.metrics.failedPurchases = @ + 1,
                            !.hist = [seen EXCEPT ![id].outcome = verdict]],
            result |-> verdict ]
     ELSE [ s |-> [criticalSection(s, userId) EXCEPT
                     !.metrics.successfulPurchases = @ + 1,
                     !.hist = [seen EXCEPT ![id].outcome = "Success"]],
            result |-> "Success" ]

\* processQueue without the isProcessingQueue test of its guard
processQueue_NoGuard(s) ==
  IF Len(s.purchaseQueue) = 0 THEN s
  ELSE LET batchSize == Min(BatchSize, Len(s.purchaseQueue))
           batch == SubSeq(s.purchaseQueue, 1, batchSize)
           rest == SubSeq(s.purchaseQueue, batchSize + 1, Len(s.purchaseQueue))
           s1 == [s EXCEPT !.isProcessingQueue = TRUE, !.purchaseQueue = rest]
           r == processPurchaseAtomic(s1, batch[1].userId, batch[1].id)
       IN [r.s EXCEPT !.passes = @ \cup
             {[batch |-> batch, idx |-> 1, result |-> r.result]}]

\* processQueue that takes its batch from the tail of the queue, newest first
processQueue_Lifo(s) ==
  IF s.isProcessingQueue \/ Len(s.purchaseQueue) = 0 THEN s
  ELSE LET n == Len(s.purchaseQueue)
           batchSize == Min(BatchSize, n)
           batch == [i \in 1 .. batchSize |-> s.purchaseQueue[n + 1 - i]]
           rest == SubSeq(s.purchaseQueue, 1, n - batchSize)
           s1 == [s EXCEPT !.isProcessingQueue = TRUE, !.purchaseQueue = rest]
           r == processPurchaseAtomic(s1, batch[1].userId, batch[1].id)
       IN [r.s EXCEPT !.passes = @ \cup
             {[batch |-> batch, idx |-> 1, result |-> r.result]}]

\* processQueue() up to its first await: the guard, the flag, the splice and
\* the atomic step of the first request of the batch
\* processQueue that takes everything waiting as one batch
processQueue_WholeQueue(s) ==
  IF s.isProcessingQueue \/ Len(s.purchaseQueue) = 0 THEN s
  ELSE LET batch == s.purchaseQueue
           s1 == [s EXCEPT !.isProcessingQueue = TRUE, !.purchaseQueue = << >>]
           r == processPurchaseAtomic(s1, batch[1].userId, batch[1].id)
       IN [r.s EXCEPT !.passes = @ \cup
             {[batch |-> batch, idx |-> 1, result |-> r.result]}]

processQueue(s) ==
  IF s.isProcessingQueue \/ Len(s.purchaseQueue) = 0 THEN s
  ELSE LET batchSize == Min(BatchSize, Len(s.purchaseQueue))
           batch == SubSeq(s.purchaseQueue, 1, batchSize)
           rest == SubSeq(s.purchaseQueue, batchSize + 1, Len(s.purchaseQueue))
           s1 == [s EXCEPT !.isProcessingQueue = TRUE, !.purchaseQueue = rest]
           r == processPurchaseAtomic(s1, batch[1].userId, batch[1].id)
       IN [r.s EXCEPT !.passes = @ \cup
             {[batch |-> batch, idx |-> 1, result |-> r.result]}]

\* processQueue() from the await of batch[idx] to the next await or the end:
\* settle the completion handle of batch[idx], then either the atomic step of
\* the next request or the finally block
settle(c, id, result) ==
  IF c[id].pc = "awaiting"
  THEN [c EXCEPT ![id].pc = IF result = "Success" THEN "resolved" ELSE "rejected",
                 ![id].result = result]
  ELSE c

\* processQueueResume whose finally block leaves isProcessingQueue set
processQueueResume_KeepsFlag(s, p) ==
  LET request == p.batch[p.idx]
      s1 == [s EXCEPT !.hist[request.id].settled = @ + 1]
  IN IF p.idx < Len(p.batch)
     THEN LET next == p.batch[p.idx + 1]
              r == processPurchaseAtomic(s1, next.userId, next.id)
          IN [r.s EXCEPT !.passes = (@ \ {p}) \cup
                {[batch |-> p.batch, idx |-> p.idx + 1, result |-> r.result]}]
     ELSE [s1 EXCEPT !.passes = @ \ {p},
                     !.immediates = IF Len(s1.purchaseQueue) > 0 THEN @ + 1 ELSE @]

processQueueResume(s, p) ==
  LET request == p.batch[p.idx]
      s1 == [s EXCEPT !.hist[request.id].settled = @ + 1]
  IN IF p.idx < Len(p.batch)
     THEN LET next == p.batch[p.idx + 1]
              r == processPurchaseAtomic(s1, next.userId, next.id)
          IN [r.s EXCEPT !.passes = (@ \ {p}) \cup
                {[batch |-> p.batch, idx |-> p.idx + 1, result |-> r.result]}]
     ELSE [s1 EXCEPT !.isProcessingQueue = FALSE,
                     !.passes = @ \ {p},
                     !.immediates = IF Len(s1.purchaseQueue) > 0 THEN @ + 1 ELSE @]

\* ------------------------------------------------------------ purchase queue
NewHist(enq) ==
  [ enqueued |-> enq, enqEpoch |-> epoch, processed |-> 0, procEpoch |-> -1,
    settled |-> 0, outcome |-> "none" ]

\* the capacity test off by one (> instead of >=)
queueFull_OffByOne(queue) == Len(queue) > maxQueueSize

\* queuePurchaseRequest's capacity test
queueFull(queue) == Len(queue) >= maxQueueSize

\* the executor of the promise made by queuePurchaseRequest(userId)
\* queuePurchaseRequest that reserves a unit of stock for the request it queues
queuePurchaseRequest_Reserves(s, userId, id) ==
  LET pushed == Append(s.purchaseQueue,
                       [userId |-> userId, timestamp |-> now, id |-> id])
      s1 == [s EXCEPT !.purchaseQueue = pushed,
                      !.availableStock = @ - 1,
                      !.metrics.queuedRequests = @ + 1,
                      !.metrics.peakQueueSize =
                         IF Len(pushed) > @ THEN Len(pushed) ELSE @]
  IN IF ~ s1.isProcessingQueue THEN processQueue(s1) ELSE s1

queuePurchaseRequest(s, userId, id) ==
  LET pushed == Append(s.purchaseQueue,
                       [userId |-> userId, timestamp |-> now, id |-> id])
      s1 == [s EXCEPT !.purchaseQueue = pushed,
                      !.metrics.queuedRequests = @ + 1,
                      !.metrics.peakQueueSize =
                         IF Len(pushed) > @ THEN Len(pushed) ELSE @]
  IN IF ~ s1.isProcessingQueue THEN processQueue(s1) ELSE s1

\* ------------------------------------------------------------ admission gate
\* attemptPurchase(userId) up to its await (or to its synchronous throw)
gateBreaker ==
  IF circuitBreaker.state = "OPEN"
       /\ now - circuitBreaker.lastFailureTime > resetTimeout
  THEN [circuitBreaker EXCEPT !.state = "HALF_OPEN"]
  ELSE circuitBreaker

\* gate whose cooldown test is off by one (>= instead of >)
gate_CooldownOffByOne(userId) ==
  IF circuitBreaker.state = "OPEN"
       /\ ~ (now - circuitBreaker.lastFailureTime >= resetTimeout)
    THEN "CircuitOpen"
  ELSE IF ~ checkRateLimit(userId).ok THEN "RateLimited"
  ELSE IF now < flashSaleConfig.startTime THEN "SaleNotStarted"
  ELSE IF now > flashSaleConfig.endTime THEN "SaleEnded"
  ELSE IF userId \in DOMAIN userPurchases /\ userPurchases[userId].success
    THEN "AlreadyPurchased"
  ELSE IF availableStock <= 0 THEN "SoldOut"
  ELSE "Admitted"

\* gate without the sale-ended test (left to the batch processor)
gate_NoEndCheck(userId) ==
  IF circuitBreaker.state = "OPEN"
       /\ ~ (now - circuitBreaker.lastFailureTime > resetTimeout)
    THEN "CircuitOpen"
  ELSE IF ~ checkRateLimit(userId).ok THEN "RateLimited"
  ELSE IF now < flashSaleConfig.startTime THEN "SaleNotStarted"
  ELSE IF userId \in DOMAIN userPurchases /\ userPurchases[userId].success
    THEN "AlreadyPurchased"
  ELSE IF availableStock <= 0 THEN "SoldOut"
  ELSE "Admitted"

\* gate without the already-purchased test (left to the batch processor)
gate_NoLedgerCheck(userId) ==
  IF circuitBreaker.state = "OPEN"
       /\ ~ (now - circuitBreaker.lastFailureTime > resetTimeout)
    THEN "CircuitOpen"
  ELSE IF ~ checkRateLimit(userId).ok THEN "RateLimited"
  ELSE IF now < flashSaleConfig.startTime THEN "SaleNotStarted"
  ELSE IF now > flashSaleConfig.endTime THEN "SaleEnded"
  ELSE IF availableStock <= 0 THEN "SoldOut"
  ELSE "Admitted"

\* gate that tests the stock before the ledger
gate_StockBeforeLedger(userId) ==
  IF circuitBreaker.state = "OPEN"
       /\ ~ (now - circuitBreaker.lastFailureTime > resetTimeout)
    THEN "CircuitOpen"
  ELSE IF ~ checkRateLimit(userId).ok THEN "RateLimited"
  ELSE IF now < flashSaleConfig.startTime THEN "SaleNotStarted"
  ELSE IF now > flashSaleConfig.endTime THEN "SaleEnded"
  ELSE IF availableStock <= 0 THEN "SoldOut"
  ELSE IF userId \in DOMAIN userPurchases /\ userPurchases[userId].success
    THEN "AlreadyPurchased"
  ELSE "Admitted"

gate(userId) ==
  IF circuitBreaker.state = "OPEN"
       /\ ~ (now - circuitBreaker.lastFailureTime > resetTimeout)
    THEN "CircuitOpen"
  ELSE IF ~ checkRateLimit(userId).ok THEN "RateLimited"
  ELSE IF now < flashSaleConfig.startTime THEN "SaleNotStarted"
  ELSE IF now > flashSaleConfig.endTime THEN "SaleEnded"
  ELSE IF userId \in DOMAIN userPurchases /\ userPurchases[userId].success
    THEN "AlreadyPurchased"
  ELSE IF availableStock <= 0 THEN "SoldOut"
  ELSE "Admitted"

attemptPurchase(userId) ==
  /\ LET id == Len(calls) + 1
         counted == [metrics EXCEPT !.totalRequests = @ + 1]
         verdict == gate(userId)
         call(pc, result) ==
           [userId |-> userId, startTime |-> now, pc |-> pc, result |-> result]
     IN /\ userRequestTimestamps' =
             IF verdict = "CircuitOpen" THEN userRequestTimestamps
             ELSE checkRateLimit(userId).map
        /\ CASE verdict = "Admitted" /\ ~ queueFull(purchaseQueue) ->
                  /\ Install(queuePurchaseRequest(
                        [Svc EXCEPT !.metrics = counted,
                                    !.hist = Append(hist, NewHist(TRUE))],
                        userId, id))
                  /\ circuitBreaker' = gateBreaker
                  /\ calls' = Append(calls, call("awaiting", "none"))
             [] verdict = "Admitted" /\ queueFull(purchaseQueue) ->
                  \* the async queuePurchaseRequest returns a rejected promise
                  /\ Install([Svc EXCEPT !.metrics = counted,
                                         !.hist = Append(hist, NewHist(FALSE))])
                  /\ circuitBreaker' = gateBreaker
                  /\ calls' = Append(calls, call("rejected", "Overloaded"))
             [] OTHER ->
                  /\ Install([Svc EXCEPT !.metrics = handleFailureMetrics(counted),
                                         !.hist = Append(hist, NewHist(FALSE))])
                  /\ circuitBreaker' = handleFailureBreaker(gateBreaker)
                  /\ calls' = Append(calls, call("thrown", verdict))
  /\ UNCHANGED << lastRead, maxQueueSize, now, flashSaleConfig, epoch >>

\* attemptPurchaseResume whose success path closes the breaker but keeps the
\* failure count
attemptPurchaseResume_KeepsCount(id) ==
  /\ calls[id].pc \in {"resolved", "rejected"}
  /\ IF calls[id].pc = "resolved"
     THEN /\ metrics' = updateAverageProcessingTime(metrics, now - calls[id].startTime)
          /\ circuitBreaker' =
               IF circuitBreaker.state = "HALF_OPEN"
               THEN [circuitBreaker EXCEPT !.state = "CLOSED"]
               ELSE circuitBreaker
          /\ calls' = [calls EXCEPT ![id].pc = "returned"]
     ELSE /\ metrics' = handleFailureMetrics(metrics)
          /\ circuitBreaker' = handleFailureBreaker(circuitBreaker)
          /\ calls' = [calls EXCEPT ![id].pc = "thrown"]
  /\ UNCHANGED << lastRead, maxQueueSize, now, flashSaleConfig, availableStock,
                  userPurchases, purchaseQueue, isProcessingQueue,
                  userRequestTimestamps, passes, immediates, epoch, hist >>

\* attemptPurchaseResume whose success path resets the failure count in every
\* phase
attemptPurchaseResume_ResetsAlways(id) ==
  /\ calls[id].pc \in {"resolved", "rejected"}
  /\ IF calls[id].pc = "resolved"
     THEN /\ metrics' = updateAverageProcessingTime(metrics, now - calls[id].startTime)
          /\ circuitBreaker' =
               IF circuitBreaker.state = "HALF_OPEN"
               THEN [circuitBreaker EXCEPT !.state = "CLOSED", !.failures = 0]
               ELSE [circuitBreaker EXCEPT !.failures = 0]
          /\ calls' = [calls EXCEPT ![id].pc = "returned"]
     ELSE /\ metrics' = handleFailureMetrics(metrics)
          /\ circuitBreaker' = handleFailureBreaker(circuitBreaker)
          /\ calls' = [calls EXCEPT ![id].pc = "thrown"]
  /\ UNCHANGED << lastRead, maxQueueSize, now, flashSaleConfig, availableStock,
                  userPurchases, purchaseQueue, isProcessingQueue,
                  userRequestTimestamps, passes, immediates, epoch, hist >>

\* attemptPurchaseResume whose success path leaves the breaker as it is
attemptPurchaseResume_NoReset(id) ==
  /\ calls[id].pc \in {"resolved", "rejected"}
  /\ IF calls[id].pc = "resolved"
     THEN /\ metrics' = updateAverageProcessingTime(metrics, now - calls[id].startTime)
          /\ circuitBreaker' = circuitBreaker
          /\ calls' = [calls EXCEPT ![id].pc = "returned"]
     ELSE /\ metrics' = handleFailureMetrics(metrics)
          /\ circuitBreaker' = handleFailureBreaker(circuitBreaker)
          /\ calls' = [calls EXCEPT ![id].pc = "thrown"]
  /\ UNCHANGED << lastRead, maxQueueSize, now, flashSaleConfig, availableStock, userPurchases,
                  purchaseQueue, isProcessingQueue, userRequestTimestamps,
                  passes, immediates, epoch, hist >>

\* attemptPurchase after its await: the success path or the catch block
attemptPurchaseResume(id) ==
  /\ calls[id].pc \in {"resolved", "rejected"}
  /\ IF calls[id].pc = "resolved"
     THEN /\ metrics' = updateAverageProcessingTime(metrics, now - calls[id].startTime)
          /\ circuitBreaker' =
               IF circuitBreaker.state = "HALF_OPEN"
               THEN [circuitBreaker EXCEPT !.state = "CLOSED", !.failures = 0]
               ELSE circuitBreaker
          /\ calls' = [calls EXCEPT ![id].pc = "returned"]
     ELSE /\ metrics' = handleFailureMetrics(metrics)
          /\ circuitBreaker' = handleFailureBreaker(circuitBreaker)
          /\ calls' = [calls EXCEPT ![id].pc = "thrown"]
  /\ UNCHANGED << lastRead, maxQueueSize, now, flashSaleConfig, availableStock, userPurchases,
                  purchaseQueue, isProcessingQueue, userRequestTimestamps,
                  passes, immediates, epoch, hist >>

\* ------------------------------------------------------------------ actions
AttemptPurchase ==
  /\ Len(calls) < MaxRequests
  /\ \E userId \in Users : attemptPurchase(userId)

AttemptPurchaseResume == \E id \in DOMAIN calls : attemptPurchaseResume(id)

\* a suspended processQueue continues
ProcessQueueResume ==
  \E p \in passes :
    /\ Install(processQueueResume(Svc, p))
    /\ calls' = settle(calls, p.batch[p.idx].id, p.result)
    /\ UNCHANGED << lastRead, maxQueueSize, now, flashSaleConfig, userRequestTimestamps,
                    circuitBreaker, epoch >>

\* the callback scheduled by setImmediate in processQueue's finally block
RunImmediate ==
  /\ immediates > 0
  /\ Install(processQueue([Svc EXCEPT !.immediates = @ - 1]))
  /\ UNCHANGED << lastRead, maxQueueSize, now, flashSaleConfig, userRequestTimestamps, circuitBreaker,
                  calls, epoch >>

\* the 10 ms interval callback of startQueueProcessor
startQueueProcessor ==
  /\ Len(purchaseQueue) > 0 /\ ~ isProcessingQueue
  /\ Install(processQueue(Svc))
  /\ UNCHANGED << lastRead, maxQueueSize, now, flashSaleConfig, userRequestTimestamps, circuitBreaker,
                  calls, epoch >>

\* configureFlashSale that also resets the breaker
configureFlashSale_ResetsBreaker(startTime, endTime, totalStock) ==
  /\ flashSaleConfig' =
       [startTime |-> startTime, endTime |-> endTime, totalStock |-> totalStock]
  /\ availableStock' = totalStock
  /\ userPurchases' = EmptyMap
  /\ purchaseQueue' = << >>
  /\ metrics' = InitialMetrics
  /\ circuitBreaker' = [failures |-> 0, lastFailureTime |-> 0, state |-> "CLOSED"]
  /\ epoch' = epoch + 1
  /\ UNCHANGED << lastRead, maxQueueSize, now, isProcessingQueue,
                  userRequestTimestamps, passes, immediates, calls, hist >>

\* configureFlashSale that leaves the ledger as it was
configureFlashSale_KeepLedger(startTime, endTime, totalStock) ==
  /\ flashSaleConfig' =
       [startTime |-> startTime, endTime |-> endTime, totalStock |-> totalStock]
  /\ availableStock' = totalStock
  /\ purchaseQueue' = << >>
  /\ metrics' = InitialMetrics
  /\ epoch' = epoch + 1
  /\ UNCHANGED << lastRead, maxQueueSize, now, userPurchases, isProcessingQueue,
                  userRequestTimestamps, circuitBreaker, passes, immediates,
                  calls, hist >>

\* configureFlashSale that leaves availableStock as it was
configureFlashSale_KeepStock(startTime, endTime, totalStock) ==
  /\ flashSaleConfig' =
       [startTime |-> startTime, endTime |-> endTime, totalStock |-> totalStock]
  /\ userPurchases' = EmptyMap
  /\ purchaseQueue' = << >>
  /\ metrics' = InitialMetrics
  /\ epoch' = epoch + 1
  /\ UNCHANGED << lastRead, maxQueueSize, now, availableStock, isProcessingQueue, userRequestTimestamps,
                  circuitBreaker, passes, immediates, calls, hist >>

configureFlashSale(startTime, endTime, totalStock) ==
  /\ flashSaleConfig' =
       [startTime |-> startTime, endTime |-> endTime, totalStock |-> totalStock]
  /\ availableStock' = totalStock
  /\ userPurchases' = EmptyMap
  /\ purchaseQueue' = << >>
  /\ metrics' = InitialMetrics
  /\ epoch' = epoch + 1
  /\ UNCHANGED << lastRead, maxQueueSize, now, isProcessingQueue, userRequestTimestamps, circuitBreaker,
                  passes, immediates, calls, hist >>

ConfigureFlashSale ==
  /\ epoch < MaxConfigs
  /\ \E w \in SaleWindows, totalStock \in StockChoices :
       configureFlashSale(w.startTime, w.endTime, totalStock)

Tick ==
  /\ now < MaxTicks * TimeStep
  /\ now' = now + TimeStep
  /\ UNCHANGED << lastRead, maxQueueSize, flashSaleConfig, availableStock, userPurchases, purchaseQueue,
                  isProcessingQueue, userRequestTimestamps, circuitBreaker,
                  metrics, passes, immediates, calls, epoch, hist >>

\* the state after the constructor, for a queue of the given capacity
Constructed(capacity) ==
  /\ now = 0
  /\ flashSaleConfig = [startTime |-> 0 - defaultStartOffset,
                        endTime |-> defaultDuration,
                        totalStock |-> defaultTotalStock]
  /\ availableStock = defaultTotalStock
  /\ userPurchases = EmptyMap
  /\ purchaseQueue = << >>
  /\ isProcessingQueue = FALSE
  /\ userRequestTimestamps = EmptyMap
  /\ circuitBreaker = [failures |-> 0, lastFailureTime |-> 0, state |-> "CLOSED"]
  /\ metrics = InitialMetrics
  /\ passes = {}
  /\ immediates = 0
  /\ calls = << >>
  /\ epoch = 0
  /\ hist = << >>
  /\ lastRead = NoRead
  /\ maxQueueSize = capacity

Init == Constructed(QueueCapacity)

Next ==
  \/ AttemptPurchase
  \/ AttemptPurchaseResume
  \/ ProcessQueueResume
  \/ RunImmediate
  \/ startQueueProcessor
  \/ ConfigureFlashSale
  \/ Tick

Spec == Init /\ [][Next]_vars

\* the service as constructed and never reconfigured, followed for more calls:
\* long enough for the circuit breaker to open, cool down and be probed
BreakerAttemptPurchase ==
  /\ Len(calls) < MaxBreakerRequests
  /\ \E userId \in Users : attemptPurchase(userId)

\* the breaker's cooldown is 30 s and a pass over the queue takes microseconds:
\* here the clock advances only while no pass is running or scheduled (calls
\* may still be waiting for their continuation)
BreakerTick ==
  /\ passes = {} /\ immediates = 0
  /\ Tick

BreakerNext ==
  \/ BreakerAttemptPurchase
  \/ AttemptPurchaseResume
  \/ ProcessQueueResume
  \/ RunImmediate
  \/ startQueueProcessor
  \/ BreakerTick

BreakerSpec == Init /\ [][BreakerNext]_vars

\* The admission gate as a function of the service state.  The initial states
\* are states of a configured service, one for every combination of the things
\* the gate reads: the clock against the sale window, the breaker record, the
\* limiter windows, the ledger and the stock.
GateWindows == SaleWindows \cup { [startTime |-> 2 * TimeStep, endTime |-> 0] }

\* what checkRateLimit can have stored for one identity: up to
\* maxRequestsPerMinute timestamps in the order they were pushed
GateTimestampLists ==
  { [i \in 1 .. n |-> IF i <= k THEN 0 ELSE TimeStep] :
      n \in 1 .. maxRequestsPerMinute, k \in 0 .. maxRequestsPerMinute }

GateBreakers ==
  { [failures |-> 0, lastFailureTime |-> 0, state |-> "CLOSED"] }
    \cup [ failures : {failureThreshold - 1}, lastFailureTime : {0, TimeStep},
           state : {"CLOSED"} ]
    \cup [ failures : {failureThreshold}, lastFailureTime : {0, TimeStep},
           state : {"OPEN"} ]

GateInit ==
  /\ \E w \in GateWindows, totalStock \in StockChoices :
       /\ flashSaleConfig = [startTime |-> w.startTime, endTime |-> w.endTime,
                             totalStock |-> totalStock]
       /\ now \in {0, TimeStep, 2 * TimeStep} \cup {w.startTime, w.endTime}
  /\ circuitBreaker \in GateBreakers
  /\ circuitBreaker.lastFailureTime <= now
  /\ \E tracked \in SUBSET Users :
       /\ userRequestTimestamps \in [tracked -> GateTimestampLists]
       /\ \A u \in tracked :
            \A i \in DOMAIN userRequestTimestamps[u] :
              userRequestTimestamps[u][i] <= now
  \* the purchases made so far: at the opening of the sale, by identities whose
  \* request then went through the limiter
  /\ \E buyers \in SUBSET Users :
       /\ userPurchases =
            [u \in buyers |-> [timestamp |-> flashSaleConfig.startTime, success |-> TRUE]]
       /\ buyers # {}
            => /\ flashSaleConfig.startTime = TimeStep
               /\ flashSaleConfig.startTime <= now
               /\ Cardinality(buyers) <= flashSaleConfig.totalStock
       /\ \A u \in buyers :
            /\ u \in DOMAIN userRequestTimestamps
            /\ \E i \in DOMAIN userRequestTimestamps[u] :
                 userRequestTimestamps[u][i] = flashSaleConfig.startTime
       /\ availableStock = flashSaleConfig.totalStock - Cardinality(buyers)
       /\ metrics = [ InitialMetrics EXCEPT
                        !.totalRequests = Cardinality(buyers),
                        !.successfulPurchases = Cardinality(buyers),
                        !.queuedRequests = Cardinality(buyers),
                        !.peakQueueSize = IF buyers = {} THEN 0 ELSE 1 ]
  /\ purchaseQueue = << >>
  /\ isProcessingQueue = FALSE
  /\ passes = {}
  /\ immediates = 0
  /\ calls = << >>
  /\ epoch = 1
  /\ hist = << >>
  /\ lastRead = NoRead
  /\ maxQueueSize = QueueCapacity

GateAttemptPurchase ==
  /\ Len(calls) < MaxGateRequests
  /\ \E userId \in Users : attemptPurchase(userId)

GateNext ==
  \/ GateAttemptPurchase
  \/ AttemptPurchaseResume
  \/ ProcessQueueResume
  \/ RunImmediate
  \/ startQueueProcessor

GateSpec == GateInit /\ [][GateNext]_vars

\* the gate's inputs together with a reconfigure
GateConfigureFlashSale ==
  /\ epoch < MaxGateConfigs
  /\ \E w \in GateWindows, totalStock \in StockChoices :
       configureFlashSale(w.startTime, w.endTime, totalStock)

FrameNext ==
  \/ GateAttemptPurchase
  \/ AttemptPurchaseResume
  \/ ProcessQueueResume
  \/ RunImmediate
  \/ startQueueProcessor
  \/ GateConfigureFlashSale

FrameSpec == GateInit /\ [][FrameNext]_vars

\* --------------------------------------------------------- read operations
\* a / b > n / d for a fraction a / b as Frac returns it
Exceeds(f, n, d) == f.num * d > n * f.den

\* getSystemHealth that counts a queue exactly half full as degraded
systemHealth_HalfIsDegraded(queueLength, capacity, state) ==
  LET queueUtilization == Frac(queueLength, capacity)
      circuitOpen == state = "OPEN"
  IN IF circuitOpen \/ Exceeds(queueUtilization, 9, 10) THEN "unhealthy"
     ELSE IF queueUtilization.num * 2 >= queueUtilization.den
             \/ state = "HALF_OPEN"
          THEN "degraded"
          ELSE "healthy"

\* the body of getSystemHealth, on the three values it reads
systemHealth(queueLength, capacity, state) ==
  LET queueUtilization == Frac(queueLength, capacity)
      circuitOpen == state = "OPEN"
  IN IF circuitOpen \/ Exceeds(queueUtilization, 9, 10) THEN "unhealthy"
     ELSE IF Exceeds(queueUtilization, 1, 2) \/ state = "HALF_OPEN"
          THEN "degraded"
          ELSE "healthy"

getSystemHealth ==
  systemHealth(Len(purchaseQueue), maxQueueSize, circuitBreaker.state)

\* getFlashSaleStatus that still reports upcoming at the opening instant
getFlashSaleStatus_StartExclusive ==
  LET status == IF now <= flashSaleConfig.startTime THEN "upcoming"
                ELSE IF now > flashSaleConfig.endTime THEN "ended"
                ELSE "active"
  IN [ status |-> status,
       startTime |-> flashSaleConfig.startTime,
       endTime |-> flashSaleConfig.endTime,
       totalStock |-> flashSaleConfig.totalStock,
       availableStock |-> availableStock,
       soldOut |-> availableStock = 0,
       queueLength |-> Len(purchaseQueue),
       systemHealth |-> getSystemHealth ]

getFlashSaleStatus ==
  LET status == IF now < flashSaleConfig.startTime THEN "upcoming"
                ELSE IF now > flashSaleConfig.endTime THEN "ended"
                ELSE "active"
  IN [ status |-> status,
       startTime |-> flashSaleConfig.startTime,
       endTime |-> flashSaleConfig.endTime,
       totalStock |-> flashSaleConfig.totalStock,
       availableStock |-> availableStock,
       soldOut |-> availableStock = 0,
       queueLength |-> Len(purchaseQueue),
       systemHealth |-> getSystemHealth ]

\* checkUserPurchase that stamps its answer with the time of the call
checkUserPurchase_FreshTimestamp(userId) ==
  IF userId \in DOMAIN userPurchases
  THEN [ purchased |-> userPurchases[userId].success,
         message |-> IF userPurchases[userId].success
                     THEN "You have successfully secured an item"
                     ELSE "You have not purchased an item yet",
         timestamp |-> now ]
  ELSE [ purchased |-> FALSE,
         message |-> "You have not purchased an item yet" ]

\* the timestamp field is undefined, here absent, for an identity with no entry
checkUserPurchase(userId) ==
  IF userId \in DOMAIN userPurchases
  THEN [ purchased |-> userPurchases[userId].success,
         message |-> IF userPurchases[userId].success
                     THEN "You have successfully secured an item"
                     ELSE "You have not purchased an item yet",
         timestamp |-> userPurchases[userId].timestamp ]
  ELSE [ purchased |-> FALSE,
         message |-> "You have not purchased an item yet" ]

\* (x * 100).toFixed(2) of x = n / d, in hundredths of a percent
Percent(n, d) == (2 * 10000 * n + d) \div (2 * d)

getMetrics ==
  [ totalRequests |-> metrics.totalRequests,
    successfulPurchases |-> metrics.successfulPurchases,
    failedPurchases |-> metrics.failedPurchases,
    queuedRequests |-> metrics.queuedRequests,
    averageProcessingTime |-> metrics.averageProcessingTime,
    peakQueueSize |-> metrics.peakQueueSize,
    currentQueueSize |-> Len(purchaseQueue),
    circuitBreakerState |-> circuitBreaker.state,
    activeUsers |-> Cardinality(DOMAIN userPurchases),
    successRate |-> IF metrics.totalRequests > 0
                    THEN Percent(metrics.successfulPurchases, metrics.totalRequests)
                    ELSE 0 ]

\* uptime and memoryUsage are the host process's and are left out
getHealthCheck ==
  [ status |-> getSystemHealth,
    circuitBreaker |-> circuitBreaker.state,
    queueLength |-> Len(purchaseQueue),
    availableStock |-> availableStock,
    timestamp |-> now ]

\* everything but lastRead, the caller's copy of the answer
service == << now, flashSaleConfig, availableStock, userPurchases, purchaseQueue,
              maxQueueSize, isProcessingQueue, userRequestTimestamps, circuitBreaker, metrics,
              passes, immediates, calls, epoch, hist >>

GetFlashSaleStatus ==
  /\ lastRead' = [op |-> "getFlashSaleStatus", result |-> getFlashSaleStatus]
  /\ UNCHANGED service

CheckUserPurchase ==
  \E userId \in Users :
    /\ lastRead' = [op |-> "checkUserPurchase", userId |-> userId,
                    result |-> checkUserPurchase(userId)]
    /\ UNCHANGED service

\* getMetrics that counts itself as a request
GetMetrics_CountsItself ==
  /\ lastRead' = [op |-> "getMetrics", result |-> getMetrics]
  /\ metrics' = [metrics EXCEPT !.totalRequests = @ + 1]
  /\ UNCHANGED << now, flashSaleConfig, availableStock, userPurchases,
                  purchaseQueue, maxQueueSize, isProcessingQueue,
                  userRequestTimestamps, circuitBreaker, passes, immediates,
                  calls, epoch, hist >>

GetMetrics ==
  /\ lastRead' = [op |-> "getMetrics", result |-> getMetrics]
  /\ UNCHANGED service

GetHealthCheck ==
  /\ lastRead' = [op |-> "getHealthCheck", result |-> getHealthCheck]
  /\ UNCHANGED service

\* the service together with its read operations
ReadAttemptPurchase ==
  /\ Len(calls) < MaxReadRequests
  /\ \E userId \in Users : attemptPurchase(userId)

ReadConfigureFlashSale ==
  /\ epoch < MaxConfigs
  /\ \E w \in GateWindows, totalStock \in StockChoices :
       configureFlashSale(w.startTime, w.endTime, totalStock)

ReadNext ==
  \/ ReadAttemptPurchase
  \/ AttemptPurchaseResume
  \/ ProcessQueueResume
  \/ RunImmediate
  \/ startQueueProcessor
  \/ ReadConfigureFlashSale
  \/ Tick
  \/ GetFlashSaleStatus
  \/ CheckUserPurchase
  \/ GetMetrics
  \/ GetHealthCheck

ReadSpec == Init /\ [][ReadNext]_vars

\* getSystemHealth on drawn queue lengths, capacities and breaker states
HealthCapacities == {QueueCapacity, 10, 20}

BreakerStates == {"CLOSED", "OPEN", "HALF_OPEN"}

EvalSystemHealth ==
  /\ \E capacity \in HealthCapacities, state \in BreakerStates :
       \E queueLength \in 0 .. capacity :
         lastRead' = [op |-> "getSystemHealth", queueLength |-> queueLength,
                      capacity |-> capacity, state |-> state,
                      result |-> systemHealth(queueLength, capacity, state)]
  /\ UNCHANGED service

HealthSpec == Init /\ [][EvalSystemHealth]_vars

\* the service with a queue that can hold more than one batch
BatchInit == Constructed(BatchQueueCapacity)

BatchAttemptPurchase ==
  /\ Len(calls) < MaxBatchRequests
  /\ \E userId \in Users : attemptPurchase(userId)

BatchNext ==
  \/ BatchAttemptPurchase
  \/ AttemptPurchaseResume
  \/ ProcessQueueResume
  \/ RunImmediate
  \/ startQueueProcessor

BatchSpec == BatchInit /\ [][BatchNext]_vars

\* ------------------------------------------------------- observation helpers
Requests == DOMAIN hist

Queued == { id \in Requests : hist[id].enqueued }

SuccessRecords == { u \in DOMAIN userPurchases : userPurchases[u].success }

\* the requests admitted to the queue since the last configureFlashSale
ThisEpoch == { id \in Queued : hist[id].enqEpoch = epoch }

InQueue(id) == \E i \in DOMAIN purchaseQueue : purchaseQueue[i].id = id

\* taken off the queue by a pass that has not settled it yet
InFlight(id) ==
  \E p \in passes : \E i \in p.idx .. Len(p.batch) : p.batch[i].id = id

Succeeded(id) == hist[id].settled >= 1 /\ hist[id].outcome = "Success"

Failed(id) ==
  hist[id].settled >= 1
    /\ hist[id].outcome \in {"SaleEnded", "AlreadyPurchased", "SoldOut"}

\* the conditions of the stock-accounting scenarios: every request admitted in
\* this sale epoch is of a different identity, none was re-validated after the
\* sale's end, no request admitted before the last configureFlashSale was
\* processed after it, and the queue has drained
DistinctIdentities ==
  \A a, b \in ThisEpoch : a # b => calls[a].userId # calls[b].userId

SaleOpenWhenProcessed == \A id \in ThisEpoch : hist[id].outcome # "SaleEnded"

NoReconfigureInFlight ==
  \A id \in Queued : hist[id].procEpoch = epoch => hist[id].enqEpoch = epoch

Drained == \A id \in ThisEpoch : hist[id].settled >= 1

Scenario ==
  /\ flashSaleConfig.totalStock >= 0
  /\ DistinctIdentities
  /\ SaleOpenWhenProcessed
  /\ NoReconfigureInFlight
  /\ Drained

\* --------------------------------------------------------------------- claims

\* C1: in every reachable state availableStock equals totalStock minus the
\* number of success records in userPurchases, whatever interleaving of
\* attemptPurchase calls, processor steps and configureFlashSale calls led there.
C1_StockMatchesLedger ==
  availableStock = flashSaleConfig.totalStock - Cardinality(SuccessRecords)

C1_Witness ==
  /\ epoch = 1
  /\ Cardinality(SuccessRecords) = 2
  /\ availableStock = 0
  /\ passes # {}

\* C2: for a sale configured with a non-negative totalStock,
\* 0 <= availableStock <= totalStock in every reachable state.
C2_NoOverselling ==
  flashSaleConfig.totalStock >= 0 =>
    (0 <= availableStock /\ availableStock <= flashSaleConfig.totalStock)

\* the last unit is gone and a request admitted while it was still there has
\* been re-validated against the empty stock
C2_Witness ==
  /\ flashSaleConfig.totalStock = 1
  /\ availableStock = 0
  /\ \E id \in ThisEpoch : hist[id].outcome = "SoldOut"

\* C3: within one sale epoch no identity is granted Success twice, also when
\* several requests of that identity are in the queue at the same time.  A
\* Success belongs to the epoch in which the atomic step granted it.
C3_OneSuccessPerIdentity ==
  \A a, b \in Queued :
    ( /\ a # b
      /\ calls[a].userId = calls[b].userId
      /\ hist[a].procEpoch = hist[b].procEpoch
      /\ hist[a].outcome = "Success" )
    => hist[b].outcome # "Success"

\* two requests of one identity passed the gate in the same epoch and both got
\* their atomic step in it
C3_Witness ==
  \E a, b \in Queued :
    /\ a < b
    /\ calls[a].userId = calls[b].userId
    /\ hist[a].enqEpoch = hist[b].enqEpoch
    /\ hist[a].procEpoch = hist[a].enqEpoch
    /\ hist[b].procEpoch = hist[b].enqEpoch
    /\ hist[a].outcome = "Success"
    /\ hist[b].outcome = "AlreadyPurchased"

\* C4: total stock N, M >= N admitted requests of distinct identities, sale open
\* when they are processed, no reconfigure: once the queue has drained exactly
\* N of them completed with Success, the other M - N failed, availableStock = 0.
C4_ExactlyNSucceed ==
  ( Scenario /\ Cardinality(ThisEpoch) >= flashSaleConfig.totalStock )
  => /\ Cardinality({ id \in ThisEpoch : Succeeded(id) }) = flashSaleConfig.totalStock
     /\ Cardinality({ id \in ThisEpoch : Failed(id) })
          = Cardinality(ThisEpoch) - flashSaleConfig.totalStock
     /\ availableStock = 0

C4_Witness ==
  /\ Scenario
  /\ flashSaleConfig.totalStock >= 1
  /\ Cardinality(ThisEpoch) > flashSaleConfig.totalStock

\* the requests granted Success by their atomic step
Granted == { id \in Queued : hist[id].outcome = "Success" }

C5_DrainedBelowStock ==
  ( Scenario /\ Cardinality(ThisEpoch) < flashSaleConfig.totalStock )
  => /\ \A id \in ThisEpoch : Succeeded(id)
     /\ availableStock = flashSaleConfig.totalStock - Cardinality(ThisEpoch)

\* C5: total stock N, M < N admitted requests of distinct identities, sale open,
\* no reconfigure: once the queue has drained all M completed with Success and
\* availableStock = N - M; and every step that grants a Success grants one and
\* lowers availableStock by exactly 1.
C5_AllSucceedBelowStock ==
  /\ [] C5_DrainedBelowStock
  /\ [][ Granted' # Granted
         => ( /\ Cardinality(Granted' \ Granted) = 1
              /\ availableStock' = availableStock - 1 ) ]_vars

C5_Witness ==
  /\ Scenario
  /\ epoch = 1
  /\ Cardinality(ThisEpoch) = 1
  /\ flashSaleConfig.totalStock = 2

\* C6: at most one processing pass is active at any time, and
\* isProcessingQueue is true exactly while one is.
C6_SinglePass ==
  /\ Cardinality(passes) <= 1
  /\ isProcessingQueue <=> passes # {}

\* a pass is running, work is waiting and a setImmediate wake-up is pending
C6_Witness ==
  /\ Cardinality(passes) = 1
  /\ Len(purchaseQueue) > 0
  /\ immediates > 0

\* C7: strict FIFO: if A was enqueued before B, then A's atomic step has been
\* executed and A's completion handle settled before B's atomic step is executed.
C7_StrictFifo ==
  \A a, b \in Queued :
    (a < b /\ hist[b].processed >= 1)
    => (hist[a].processed >= 1 /\ hist[a].settled >= 1)

\* C8: for two queued requests A and B of distinct identities, both of the same
\* sale epoch, with A enqueued before B, A never fails SoldOut while B
\* completes with Success.
C8_EarlierNeverLoses ==
  \A a, b \in Queued :
    ( /\ a < b
      /\ calls[a].userId # calls[b].userId
      /\ hist[a].enqEpoch = hist[b].enqEpoch
      /\ hist[a].procEpoch = hist[a].enqEpoch
      /\ hist[b].procEpoch = hist[b].enqEpoch
      /\ hist[a].outcome = "SoldOut" )
    => hist[b].outcome # "Success"

\* two queued requests of one epoch raced for the last unit
C8_Witness ==
  \E a, b \in Queued :
    /\ a < b
    /\ calls[a].userId # calls[b].userId
    /\ hist[a].enqEpoch = hist[b].enqEpoch
    /\ hist[a].procEpoch = hist[a].enqEpoch
    /\ hist[b].procEpoch = hist[b].enqEpoch
    /\ InQueue(a) = FALSE /\ InQueue(b) = FALSE
    /\ hist[a].outcome = "Success"
    /\ hist[b].outcome = "SoldOut"

C9_QueueBounded == Len(purchaseQueue) <= maxQueueSize

\* C9: the queue never holds more than maxQueueSize requests, and a call made
\* while the queue is at capacity leaves the queue unchanged; when it passes
\* the gate, so that the enqueue is attempted, it fails with Overloaded.
C9_Backpressure ==
  /\ [] C9_QueueBounded
  /\ [][ ( Len(calls') = Len(calls) + 1 /\ Len(purchaseQueue) >= maxQueueSize )
         => LET new == Len(calls')
            IN /\ purchaseQueue' = purchaseQueue
               /\ ~ hist'[new].enqueued
               /\ gate(calls'[new].userId) = "Admitted"
                    => calls'[new].result = "Overloaded" ]_vars

C9_Witness ==
  /\ Len(purchaseQueue) = maxQueueSize
  /\ \E id \in Requests : calls[id].result = "Overloaded"

\* C10: every request placed in the queue eventually gets a terminal outcome.
\* A request that is neither settled nor held by the queue or by a running
\* pass can never get one, so the claim requires this in every state.
C10_NoAdmittedRequestLost ==
  \A id \in Queued : hist[id].settled = 0 => (InQueue(id) \/ InFlight(id))

\* ------------------------------------------------- gate: observation helpers
\* a step in which attemptPurchase is called: the new call is the last of calls'
NewCall == Len(calls') = Len(calls) + 1

\* the timestamps recorded for userId that are younger than the window
YoungTimestamps(userId) ==
  IF userId \in DOMAIN userRequestTimestamps
  THEN SelectSeq(userRequestTimestamps[userId], LAMBDA ts : now - ts < rateWindow)
  ELSE << >>

\* the call's request went through the limiter and was recorded by it
Recorded(id) == calls[id].result \notin {"CircuitOpen", "RateLimited"}

\* C11: a request that reaches the rate-limit check while its identity has
\* maxRequestsPerMinute recorded timestamps younger than the window fails
\* RateLimited (and nothing is recorded); with fewer it passes the limiter and
\* the current time is appended to the young timestamps.  Only young timestamps
\* count, so an identity whose timestamps have aged out passes again.
C11_RateLimiter ==
  [][ ( NewCall /\ calls'[Len(calls')].result # "CircuitOpen" )
      => LET new == calls'[Len(calls')]
             young == YoungTimestamps(new.userId)
         IN IF Len(young) >= maxRequestsPerMinute
            THEN /\ new.result = "RateLimited"
                 /\ userRequestTimestamps' = userRequestTimestamps
            ELSE /\ new.result # "RateLimited"
                 /\ new.userId \in DOMAIN userRequestTimestamps'
                 /\ userRequestTimestamps'[new.userId] = Append(young, now) ]_vars

\* an identity that filled its window passes the limiter again once the
\* recorded timestamps are a full window old
C11_Witness ==
  \E a, b, c, d \in DOMAIN calls :
    /\ a < b /\ b < c /\ c < d
    /\ \A x \in {b, c, d} : calls[x].userId = calls[a].userId
    /\ \A x \in {a, b, c} : calls[x].startTime = 0 /\ Recorded(x)
    /\ calls[d].startTime = rateWindow
    /\ Recorded(d)
    /\ userRequestTimestamps[calls[d].userId] = << rateWindow >>

\* the earlier calls of the identity of call id made less than a window before it
EarlierInWindow(id) ==
  { x \in DOMAIN calls :
      /\ x < id
      /\ calls[x].userId = calls[id].userId
      /\ calls[id].startTime - calls[x].startTime < rateWindow }

\* C12 as stated: the request that follows maxRequestsPerMinute requests of its
\* identity inside one window has the outcome RateLimited.
C12_NextInWindowRateLimited ==
  \A id \in DOMAIN calls :
    Cardinality(EarlierInWindow(id)) >= maxRequestsPerMinute
      => calls[id].result = "RateLimited"

\* C12 amended: when maxRequestsPerMinute earlier requests of the identity
\* inside the window were all recorded by the limiter and the request itself is
\* not rejected by the breaker, its outcome is RateLimited.
C12_RateLimitedPastBreaker ==
  \A id \in DOMAIN calls :
    ( /\ Cardinality({ x \in EarlierInWindow(id) : Recorded(x) })
           >= maxRequestsPerMinute
      /\ calls[id].result # "CircuitOpen" )
    => calls[id].result = "RateLimited"

C12_Witness ==
  \E id \in DOMAIN calls :
    /\ Cardinality({ x \in EarlierInWindow(id) : Recorded(x) }) = maxRequestsPerMinute
    /\ calls[id].result = "RateLimited"
    /\ circuitBreaker.state = "CLOSED"

\* ---------------------------------------------- breaker: observation helpers
\* the calls whose failure is recorded (their catch block runs) in this step
FailingNow ==
  { id \in DOMAIN calls' :
      /\ calls'[id].pc = "thrown"
      /\ id \in DOMAIN calls => calls[id].pc # "thrown" }

\* the reset of lines 548-551: a request completes while the breaker is HALF_OPEN
ProbeSucceeds ==
  /\ circuitBreaker.state = "HALF_OPEN"
  /\ \E id \in DOMAIN calls : calls[id].pc = "resolved" /\ calls'[id].pc = "returned"

C13_OpenOnlyAtThreshold ==
  /\ circuitBreaker.state = "CLOSED" => circuitBreaker.failures < failureThreshold
  /\ circuitBreaker.state # "CLOSED" => circuitBreaker.failures >= failureThreshold

\* C13: from Closed with failureCount 0 the breaker enters Open exactly when
\* the failureThreshold-th failure is recorded, not earlier; every failed
\* attemptPurchase, rejected at the gate or by the batch processor, adds
\* exactly 1 to failureCount, and nothing else raises it.
C13_BreakerOpensAtThreshold ==
  /\ [] C13_OpenOnlyAtThreshold
  /\ [][ /\ Cardinality(FailingNow) <= 1
         /\ FailingNow # {}
              => circuitBreaker'.failures = circuitBreaker.failures + 1
         /\ FailingNow = {}
              => \/ circuitBreaker'.failures = circuitBreaker.failures
                 \/ ProbeSucceeds /\ circuitBreaker'.failures = 0
         /\ ( circuitBreaker.state = "CLOSED" /\ circuitBreaker'.state # "CLOSED" )
              => /\ circuitBreaker'.state = "OPEN"
                 /\ circuitBreaker'.failures = failureThreshold
                 /\ FailingNow # {} ]_vars

\* the breaker has just opened on its fifth failure; the failures came from the
\* gate and from the batch processor
C13_Witness ==
  /\ circuitBreaker.state = "OPEN"
  /\ circuitBreaker.failures = failureThreshold
  /\ \E id \in DOMAIN calls :
       calls[id].pc = "thrown" /\ hist[id].enqueued /\ hist[id].settled >= 1
  /\ \E id \in DOMAIN calls : calls[id].pc = "thrown" /\ ~ hist[id].enqueued

\* the breaker is Open and its cooldown has not elapsed
CoolingDown ==
  /\ circuitBreaker.state = "OPEN"
  /\ ~ (now - circuitBreaker.lastFailureTime > resetTimeout)

\* C14: while the breaker is Open and the cooldown has not elapsed, every
\* attemptPurchase fails CircuitOpen at once and leaves the rate-limiter
\* windows, the queue, availableStock and the ledger unchanged.
C14_OpenRejectsWithoutWork ==
  [][ ( NewCall /\ CoolingDown )
      => /\ calls'[Len(calls')].result = "CircuitOpen"
         /\ calls'[Len(calls')].pc = "thrown"
         /\ UNCHANGED << userRequestTimestamps, purchaseQueue, availableStock,
                         userPurchases, passes, isProcessingQueue >> ]_vars

\* a call was rejected CircuitOpen that every later check would have let in:
\* stock is left, its identity holds no success record and no limiter window
C14_Witness ==
  \E id \in DOMAIN calls :
    /\ calls[id].result = "CircuitOpen"
    /\ calls[id].userId \notin DOMAIN userRequestTimestamps
    /\ calls[id].userId \notin DOMAIN userPurchases
    /\ availableStock > 0
    /\ now <= flashSaleConfig.endTime

\* C15: HalfOpen lets exactly one admission through as the probe: while the
\* breaker is HalfOpen (the probe that made it so has no outcome yet: any
\* outcome moves the breaker to Closed or Open) no other call passes the
\* breaker check.
C15_SingleProbe ==
  [][ ( NewCall /\ circuitBreaker.state = "HALF_OPEN" )
      => calls'[Len(calls')].result = "CircuitOpen" ]_vars

\* the calls that complete with Success (return their result) in this step
ReturningNow ==
  { id \in DOMAIN calls : calls[id].pc = "resolved" /\ calls'[id].pc = "returned" }

\* the breaker as the code sees it when it records a failure: the breaker check
\* of a new call may just have moved it from OPEN to HALF_OPEN
HalfOpenAtFailure ==
  \/ circuitBreaker.state = "HALF_OPEN"
  \/ /\ NewCall
     /\ circuitBreaker.state = "OPEN"
     /\ now - circuitBreaker.lastFailureTime > resetTimeout

\* C16: from HalfOpen, a request that completes with Success moves the
\* breaker to Closed with failureCount 0; a request that fails moves it back to
\* Open with lastFailureTime the time of that failure.
C16_ProbeOutcome ==
  [][ /\ ( circuitBreaker.state = "HALF_OPEN" /\ ReturningNow # {} )
           => /\ circuitBreaker'.state = "CLOSED"
              /\ circuitBreaker'.failures = 0
      /\ ( HalfOpenAtFailure /\ FailingNow # {} )
           => /\ circuitBreaker'.state = "OPEN"
              /\ circuitBreaker'.lastFailureTime = now ]_vars

\* the breaker closed again after a probe: it had opened (five calls failed
\* before the probe) and a later call returned Success
C16_Witness ==
  /\ circuitBreaker.state = "CLOSED"
  /\ circuitBreaker.failures = 0
  /\ Cardinality({ id \in DOMAIN calls : calls[id].pc = "thrown" }) >= failureThreshold
  /\ \E id \in DOMAIN calls :
       /\ calls[id].pc = "returned"
       /\ calls[id].startTime > resetTimeout

\* the calls rejected by the gate's own checks at time 0
GateFailuresAtZero ==
  { x \in DOMAIN calls :
      /\ calls[x].startTime = 0
      /\ calls[x].pc = "thrown"
      /\ calls[x].result \notin {"CircuitOpen", "Overloaded"}
      /\ ~ hist[x].enqueued }

\* five failures at time 0: the breaker entered Open at time 0.  The first
\* call made later than 0 + resetTimeout is not rejected CircuitOpen
C17_FirstCallAfterCooldown ==
  \A d \in DOMAIN calls :
    ( /\ Cardinality(GateFailuresAtZero) >= failureThreshold
      /\ calls[d].startTime > resetTimeout
      /\ \A x \in 1 .. d - 1 : calls[x].startTime <= resetTimeout )
    => calls[d].result # "CircuitOpen"

\* C17: the Open cooldown is fixed: failureCount and lastFailureTime change
\* only through failures recorded while the breaker is Closed or HalfOpen, so
\* the first attemptPurchase made later than the cooldown after the breaker
\* entered Open is not rejected CircuitOpen, however many were rejected between.
C17_FixedCooldown ==
  /\ [] C17_FirstCallAfterCooldown
  /\ [][ ( circuitBreaker.state = "OPEN" /\ ~ HalfOpenAtFailure )
         => /\ circuitBreaker'.failures = circuitBreaker.failures
            /\ circuitBreaker'.lastFailureTime = circuitBreaker.lastFailureTime ]_vars

\* what the gate decided for the call: the kind it threw, or Admitted when
\* the call went on to queuePurchaseRequest
GateOutcome(call) == IF call.pc = "thrown" THEN call.result ELSE "Admitted"

\* the reference decision list: the kinds in their fixed order, each with the
\* condition under which it is the answer
DecisionList(userId) ==
  << [ kind |-> "CircuitOpen", fails |-> CoolingDown ],
     [ kind |-> "RateLimited",
       fails |-> Len(YoungTimestamps(userId)) >= maxRequestsPerMinute ],
     [ kind |-> "SaleNotStarted", fails |-> now < flashSaleConfig.startTime ],
     [ kind |-> "SaleEnded", fails |-> now > flashSaleConfig.endTime ],
     [ kind |-> "AlreadyPurchased", fails |-> userId \in SuccessRecords ],
     [ kind |-> "SoldOut", fails |-> availableStock <= 0 ] >>

FirstFailing(list) ==
  LET failing == { i \in DOMAIN list : list[i].fails }
  IN IF failing = {} THEN "Admitted"
     ELSE list[CHOOSE i \in failing : \A j \in failing : i <= j].kind

\* C18: the gate returns the first failing kind of the fixed order
\* CircuitOpen, RateLimited, SaleNotStarted, SaleEnded, AlreadyPurchased,
\* SoldOut, and admits the request when none fails, for every combination of
\* breaker phase, window size, time, ledger and stock.
C18_GateOrder ==
  [][ NewCall
      => LET new == calls'[Len(calls')]
         IN GateOutcome(new) = FirstFailing(DecisionList(new.userId)) ]_vars

\* a call that fails every check after the breaker's got RateLimited
C18_Witness ==
  \E id \in DOMAIN calls :
    /\ calls[id].result = "RateLimited"
    /\ calls[id].startTime < flashSaleConfig.startTime
    /\ calls[id].startTime > flashSaleConfig.endTime
    /\ availableStock <= 0
    /\ circuitBreaker.state = "OPEN"
    /\ circuitBreaker.failures = failureThreshold + 1

\* the call's request gets as far as the rate-limit check and passes it
PassesBreakerAndLimiter(userId) ==
  /\ ~ CoolingDown
  /\ Len(YoungTimestamps(userId)) < maxRequestsPerMinute

\* the calls made since the last configureFlashSale
CallsThisEpoch == { id \in DOMAIN calls : hist[id].enqEpoch = epoch }

\* the scenario's first request: with total stock 1 the first call of the sale
\* epoch, once admitted and processed while the sale is open, completes with
\* Success
C19_FirstSucceeds ==
  \A a \in CallsThisEpoch :
    ( /\ flashSaleConfig.totalStock = 1
      /\ \A x \in CallsThisEpoch : a <= x
      /\ NoReconfigureInFlight
      /\ hist[a].enqueued /\ hist[a].processed >= 1
      /\ hist[a].outcome # "SaleEnded" )
    => hist[a].outcome = "Success"

\* C19 as stated: stock 1, one identity requesting twice in sequence: the
\* first completes with Success and the second fails AlreadyPurchased, not
\* SoldOut; in general an identity holding a success record whose request
\* passes the breaker and the limiter gets AlreadyPurchased, also when
\* availableStock is 0.
C19_HolderGetsAlreadyPurchased ==
  /\ [] C19_FirstSucceeds
  /\ [][ ( /\ NewCall
           /\ calls'[Len(calls')].userId \in SuccessRecords
           /\ PassesBreakerAndLimiter(calls'[Len(calls')].userId) )
         => /\ calls'[Len(calls')].result = "AlreadyPurchased"
            /\ calls'[Len(calls')].pc = "thrown" ]_vars

\* C19 amended: the same, for a request that passes the breaker, the limiter
\* and the two sale-window checks.
C19_HolderInsideWindow ==
  /\ [] C19_FirstSucceeds
  /\ [][ ( /\ NewCall
           /\ calls'[Len(calls')].userId \in SuccessRecords
           /\ PassesBreakerAndLimiter(calls'[Len(calls')].userId)
           /\ now >= flashSaleConfig.startTime
           /\ now <= flashSaleConfig.endTime )
         => /\ calls'[Len(calls')].result = "AlreadyPurchased"
            /\ calls'[Len(calls')].pc = "thrown" ]_vars

\* stock 1: the identity's first request returned Success, its second failed
\* AlreadyPurchased with no stock left
C19_Witness ==
  /\ flashSaleConfig.totalStock = 1
  /\ availableStock = 0
  /\ \E a, b \in CallsThisEpoch :
       /\ a < b
       /\ \A x \in CallsThisEpoch : a <= x
       /\ calls[a].userId = calls[b].userId
       /\ calls[a].pc = "returned" /\ hist[a].outcome = "Success"
       /\ calls[b].pc = "thrown" /\ calls[b].result = "AlreadyPurchased"

\* C20 as stated: when now > endTime, any attemptPurchase fails with SaleEnded
\* and increments the breaker's failure count by one.
C20_EndedRejectsAll ==
  [][ ( NewCall /\ now > flashSaleConfig.endTime )
      => /\ calls'[Len(calls')].result = "SaleEnded"
         /\ calls'[Len(calls')].pc = "thrown"
         /\ circuitBreaker'.failures = circuitBreaker.failures + 1 ]_vars

\* C20 amended: when now > endTime, every attemptPurchase fails at the gate and
\* increments the breaker's failure count by one; it fails with SaleEnded when
\* it passes the breaker, the limiter and the sale-start check.
C20_EndedRejectsPastLimiter ==
  [][ ( NewCall /\ now > flashSaleConfig.endTime )
      => /\ calls'[Len(calls')].pc = "thrown"
         /\ circuitBreaker'.failures = circuitBreaker.failures + 1
         /\ ( /\ PassesBreakerAndLimiter(calls'[Len(calls')].userId)
              /\ now >= flashSaleConfig.startTime )
              => calls'[Len(calls')].result = "SaleEnded" ]_vars

\* a call made after the end of the sale, with stock left, by an identity
\* without a success record, was rejected SaleEnded as the first failure
C20_Witness ==
  \E id \in DOMAIN calls :
    /\ calls[id].result = "SaleEnded"
    /\ calls[id].startTime > flashSaleConfig.endTime
    /\ calls[id].userId \notin SuccessRecords
    /\ availableStock > 0
    /\ circuitBreaker = [failures |-> 1, lastFailureTime |-> calls[id].startTime,
                          state |-> "CLOSED"]

\* ------------------------------------------------------------ reconfigure
Reconfigured == epoch' = epoch + 1

NewConfigs ==
  { [startTime |-> w.startTime, endTime |-> w.endTime, totalStock |-> n] :
      w \in GateWindows, n \in StockChoices }

\* C21: a configureFlashSale call installs the configuration it was given and
\* leaves availableStock at the new totalStock, checkUserPurchase answering
\* purchased = false for every identity, the queue empty and every metric
\* counter at zero.
C21_ReconfigureResets ==
  [][ Reconfigured =>
        /\ flashSaleConfig' \in NewConfigs
        /\ availableStock' = flashSaleConfig'.totalStock
        /\ \A u \in Users : ~ checkUserPurchase(u)'.purchased
        /\ purchaseQueue' = << >>
        /\ getFlashSaleStatus'.queueLength = 0
        /\ metrics' = InitialMetrics
        /\ getMetrics'.totalRequests = 0
        /\ getMetrics'.successfulPurchases = 0
        /\ getMetrics'.failedPurchases = 0
        /\ getMetrics'.queuedRequests = 0
        /\ getMetrics'.peakQueueSize = 0 ]_vars

\* a reconfigure has just wiped a purchase, a queued request and the counters
C21_Witness ==
  /\ epoch = 1
  /\ \E id \in Queued : hist[id].outcome = "Success" /\ hist[id].procEpoch = 0
  /\ \E id \in Queued : hist[id].processed = 0 /\ ~ InQueue(id) /\ ~ InFlight(id)
  /\ userPurchases = EmptyMap
  /\ availableStock = flashSaleConfig.totalStock
  /\ metrics = InitialMetrics

\* an identity one of whose requests was granted in the current epoch
HasSuccess(u) ==
  \E id \in Queued :
    /\ calls[id].userId = u
    /\ hist[id].outcome = "Success"
    /\ hist[id].procEpoch = epoch

C22_PurchasedIffGranted ==
  \A u \in Users : checkUserPurchase(u).purchased <=> HasSuccess(u)

\* C22: checkUserPurchase answers purchased = true exactly for the identities
\* granted a purchase in the current epoch, and for such an identity no step
\* short of a reconfigure (a read, an attemptPurchase, a processor step, the
\* clock) changes the answer or its timestamp.
C22_PurchaseAnswerStable ==
  /\ [] C22_PurchasedIffGranted
  /\ [][ \A u \in Users :
           HasSuccess(u) /\ epoch' = epoch
             => checkUserPurchase(u)' = checkUserPurchase(u) ]_vars

\* a holder asked again later and was turned away; the answer read after that
\* still carries the time of the grant
C22_Witness ==
  \E id \in Queued, again \in DOMAIN calls :
    /\ HasSuccess(calls[id].userId)
    /\ again > id
    /\ calls[again].userId = calls[id].userId
    /\ calls[again].pc = "thrown" /\ calls[again].result = "AlreadyPurchased"
    /\ lastRead = [op |-> "checkUserPurchase", userId |-> calls[id].userId,
                   result |-> checkUserPurchase(calls[id].userId)]
    /\ lastRead.result.purchased
    /\ lastRead.result.timestamp < calls[again].startTime

\* ----------------------------------------------------------------- health
\* the health the breaker phase and the fill of the queue call for
HealthFor(queueLength, capacity, state) ==
  IF state = "OPEN" \/ 100 * queueLength > 90 * capacity THEN "unhealthy"
  ELSE IF state = "HALF_OPEN" \/ 100 * queueLength > 50 * capacity THEN "degraded"
  ELSE "healthy"

\* C23: the reported health is unhealthy when the breaker is OPEN or the queue
\* is more than 90% full, otherwise degraded when the breaker is HALF_OPEN or
\* the queue is more than 50% full, otherwise healthy; getFlashSaleStatus and
\* getHealthCheck report that value, and a fresh instance reports healthy with
\* the breaker CLOSED.
C23_HealthFromBreakerAndQueue ==
  /\ getSystemHealth =
       HealthFor(Len(purchaseQueue), maxQueueSize, circuitBreaker.state)
  /\ getFlashSaleStatus.systemHealth = getSystemHealth
  /\ getHealthCheck.status = getSystemHealth
  /\ lastRead.op = "getSystemHealth"
       => lastRead.result =
            HealthFor(lastRead.queueLength, lastRead.capacity, lastRead.state)
  /\ calls = << >> /\ epoch = 0
       => getHealthCheck.status = "healthy" /\ getHealthCheck.circuitBreaker = "CLOSED"

\* a queue exactly 90% full under a CLOSED breaker was reported degraded
C23_Witness ==
  /\ lastRead.op = "getSystemHealth"
  /\ lastRead.state = "CLOSED"
  /\ 10 * lastRead.queueLength = 9 * lastRead.capacity
  /\ lastRead.result = "degraded"

\* ----------------------------------------------------------------- status
\* the gate's stock pre-check (availableStock <= 0) in the current state
GateStockCheckRejects == availableStock <= 0

\* the gate's two time pre-checks in the current state
GateTimeChecksPass ==
  ~ (now < flashSaleConfig.startTime) /\ ~ (now > flashSaleConfig.endTime)

\* C24 as stated: the phase is upcoming exactly when now < startTime, ended
\* exactly when now > endTime and active otherwise, active exactly when the
\* gate's time pre-checks pass, and soldOut is true exactly when the gate's stock
\* pre-check would reject.
C24_StatusMatchesGate ==
  /\ getFlashSaleStatus.status = "upcoming" <=> now < flashSaleConfig.startTime
  /\ getFlashSaleStatus.status = "ended" <=> now > flashSaleConfig.endTime
  /\ getFlashSaleStatus.status = "active" <=> GateTimeChecksPass
  /\ getFlashSaleStatus.soldOut <=> GateStockCheckRejects

C24_PhaseInGateOrder ==
  /\ getFlashSaleStatus.status = "upcoming" <=> now < flashSaleConfig.startTime
  /\ getFlashSaleStatus.status = "ended"
       <=> (now >= flashSaleConfig.startTime /\ now > flashSaleConfig.endTime)
  /\ getFlashSaleStatus.status = "active" <=> GateTimeChecksPass
  /\ getFlashSaleStatus.soldOut <=> availableStock = 0
  /\ flashSaleConfig.totalStock >= 0
       => (getFlashSaleStatus.soldOut <=> GateStockCheckRejects)

\* C24 (amended): the phase is upcoming exactly when now < startTime, ended
\* exactly when now >= startTime and now > endTime, and active otherwise; a call
\* that reaches the gate's time pre-checks passes them exactly when the phase is
\* active; soldOut is true exactly when availableStock = 0, and for a
\* non-negative integer totalStock a call that reaches the gate's stock
\* pre-check is rejected SoldOut exactly when soldOut is true.
C24_StatusFollowsGate ==
  /\ [] C24_PhaseInGateOrder
  /\ [][ NewCall =>
           LET verdict == GateOutcome(calls'[Len(calls')])
           IN /\ verdict \notin {"CircuitOpen", "RateLimited"}
                   => (getFlashSaleStatus.status = "active"
                         <=> verdict \notin {"SaleNotStarted", "SaleEnded"})
              /\ verdict \in {"SoldOut", "Admitted"}
                   /\ flashSaleConfig.totalStock >= 0
                   => (getFlashSaleStatus.soldOut <=> verdict = "SoldOut") ]_vars

\* the status read active and soldOut after the gate turned a call away SoldOut
C24_Witness ==
  /\ \E id \in DOMAIN calls :
       /\ calls[id].pc = "thrown" /\ calls[id].result = "SoldOut"
       /\ calls[id].startTime = now
  /\ flashSaleConfig.totalStock >= 0
  /\ lastRead = [op |-> "getFlashSaleStatus", result |-> getFlashSaleStatus]
  /\ lastRead.result.status = "active"
  /\ lastRead.result.soldOut

\* ------------------------------------------------------------------ reads
\* one of getFlashSaleStatus, checkUserPurchase, getMetrics, getHealthCheck
\* has returned
ReadReturned == lastRead' # lastRead

\* C25: a call of getFlashSaleStatus, checkUserPurchase, getMetrics or
\* getHealthCheck leaves the configuration, availableStock, the ledger, the
\* queue, the limiter windows, the breaker and the metric counters as they were.
C25_ReadsChangeNothing ==
  [][ ReadReturned =>
        UNCHANGED << flashSaleConfig, availableStock, userPurchases,
                     purchaseQueue, isProcessingQueue, userRequestTimestamps,
                     circuitBreaker, metrics >> ]_vars

\* the metrics were read with one purchase granted, a request waiting in the
\* queue and a batch in flight
C25_Witness ==
  /\ lastRead = [op |-> "getMetrics", result |-> getMetrics]
  /\ lastRead.result.successfulPurchases = 1
  /\ lastRead.result.currentQueueSize = 1
  /\ lastRead.result.activeUsers = 1
  /\ passes # {}

\* ---------------------------------------------------------------- metrics
\* the requests whose atomic step returned success since the last reconfigure
GrantedThisEpoch ==
  { id \in Queued : hist[id].outcome = "Success" /\ hist[id].procEpoch = epoch }

\* C26: in every reachable state metrics.successfulPurchases, the number of
\* success records in the ledger and the number of requests whose atomic step
\* has returned success since the last reconfigure are the same number, and
\* getMetrics reports it.
C26_SuccessCountMatchesLedger ==
  /\ metrics.successfulPurchases = Cardinality(SuccessRecords)
  /\ Cardinality(SuccessRecords) = Cardinality(GrantedThisEpoch)
  /\ getMetrics.successfulPurchases = Cardinality(GrantedThisEpoch)
  /\ getMetrics.activeUsers = Cardinality(GrantedThisEpoch)

\* a purchase granted before the reconfigure is no longer counted; one queued
\* before it and granted after it is
C26_Witness ==
  /\ epoch = 1
  /\ \E id \in Queued : hist[id].outcome = "Success" /\ hist[id].procEpoch = 0
  /\ \E id \in GrantedThisEpoch : hist[id].enqEpoch = 0
  /\ metrics.successfulPurchases = 1

\* ------------------------------------------------------------------- frame
\* the call just made was turned away by the gate
RejectedAtGate ==
  NewCall /\ calls'[Len(calls')].pc = "thrown"

\* C27: an attemptPurchase that fails at the gate (CircuitOpen, RateLimited,
\* SaleNotStarted, SaleEnded, AlreadyPurchased or SoldOut) is not queued, leaves
\* the queue, availableStock and the ledger as they were, and adds exactly one to
\* the breaker's failure count.
C27_GateRejectionNotQueued ==
  [][ RejectedAtGate =>
        /\ calls'[Len(calls')].result \in
             {"CircuitOpen", "RateLimited", "SaleNotStarted", "SaleEnded",
              "AlreadyPurchased", "SoldOut"}
        /\ ~ hist'[Len(calls')].enqueued
        /\ metrics'.queuedRequests = metrics.queuedRequests
        /\ UNCHANGED << purchaseQueue, availableStock, userPurchases >>
        /\ circuitBreaker'.failures = circuitBreaker.failures + 1 ]_vars

\* two calls were turned away, one by the limiter and one for lack of stock
C27_Witness ==
  /\ Len(calls) = 2
  /\ \A id \in DOMAIN calls : calls[id].pc = "thrown" /\ ~ hist[id].enqueued
  /\ { calls[id].result : id \in DOMAIN calls } = {"RateLimited", "SoldOut"}
  /\ purchaseQueue = << >>
  /\ circuitBreaker.failures >= 2

\* the atomic step has just run for the queue entry of call id
AtomicStep(id) ==
  hist'[id].processed = (IF id \in DOMAIN hist THEN hist[id].processed ELSE 0) + 1

\* what the re-validation order sale-ended, already-purchased, sold-out gives
\* for identity u in the current state
Revalidated(u) ==
  IF now > flashSaleConfig.endTime THEN "SaleEnded"
  ELSE IF u \in SuccessRecords THEN "AlreadyPurchased"
  ELSE IF availableStock <= 0 THEN "SoldOut"
  ELSE "Success"

\* C28: the atomic step fails SaleEnded if the sale has ended, else
\* AlreadyPurchased if the identity has a success record, else SoldOut if
\* availableStock <= 0; a failure leaves availableStock and the ledger as they
\* were, and a request passing all three takes one unit and gets its record.
C28_RevalidationOrder ==
  [][ \A id \in DOMAIN hist' :
        AtomicStep(id) =>
          LET u == calls'[id].userId
          IN /\ hist'[id].outcome = Revalidated(u)
             /\ IF Revalidated(u) = "Success"
                THEN /\ availableStock' = availableStock - 1
                     /\ userPurchases' =
                          MapSet(userPurchases, u,
                                 [timestamp |-> now, success |-> TRUE])
                ELSE UNCHANGED << availableStock, userPurchases >> ]_vars

\* a request failed SaleEnded although its identity had bought in the meantime
\* and the stock was gone as well
C28_Witness ==
  \E id \in Queued :
    /\ hist[id].outcome = "SaleEnded"
    /\ calls[id].userId \in SuccessRecords
    /\ availableStock <= 0

\* C29: availableStock and the ledger change only in a step in which the atomic
\* step grants a purchase (one unit, one record) or configureFlashSale runs: no
\* gate evaluation, enqueue, limiter check, breaker update or read changes them.
C29_StockAndLedgerFrame ==
  [][ availableStock' # availableStock \/ userPurchases' # userPurchases
        => \/ Reconfigured
           \/ \E id \in DOMAIN hist' :
                /\ AtomicStep(id)
                /\ hist'[id].outcome = "Success"
                /\ availableStock' = availableStock - 1
                /\ userPurchases' =
                     MapSet(userPurchases, calls'[id].userId,
                            [timestamp |-> now, success |-> TRUE]) ]_vars

\* with one purchase granted and returned, a second call was turned away at the
\* gate and the health was read: one unit is gone, one record is there
C29_Witness ==
  /\ epoch = 1
  /\ \E id \in DOMAIN calls : calls[id].pc = "returned"
  /\ \E id \in DOMAIN calls : calls[id].pc = "thrown" /\ ~ hist[id].enqueued
  /\ lastRead = [op |-> "getHealthCheck", result |-> getHealthCheck]
  /\ Cardinality(SuccessRecords) = 1
  /\ availableStock = flashSaleConfig.totalStock - 1

\* C30: a request placed in the queue is processed at most once, its completion
\* handle is settled at most once and only after it was processed, and it leaves
\* the queue only to be processed and settled.
C30_ConsumedExactlyOnce ==
  \A id \in Queued :
    /\ hist[id].processed <= 1
    /\ hist[id].settled <= 1
    /\ hist[id].settled = 1 => hist[id].processed = 1
    /\ InQueue(id) \/ InFlight(id) \/ hist[id].settled = 1

\* ---------------------------------------------------------------- liveness
\* the service with the scheduling the event loop gives it: a continuation
\* waiting at an await is resumed, a setImmediate callback is run, and the
\* interval timer of startQueueProcessor keeps firing
LiveNext ==
  \/ BatchAttemptPurchase
  \/ AttemptPurchaseResume
  \/ ProcessQueueResume
  \/ RunImmediate
  \/ startQueueProcessor
  \/ ConfigureFlashSale

LiveSpec ==
  /\ BatchInit
  /\ [][LiveNext]_vars
  /\ WF_vars(AttemptPurchaseResume)
  /\ WF_vars(ProcessQueueResume)
  /\ WF_vars(RunImmediate)
  /\ WF_vars(startQueueProcessor)

\* ------------------------------------------------------------------ passes
\* the pass p starts in this step
PassStarts(p) ==
  p \in passes' /\ p.idx = 1 /\ \A q \in passes : q.batch # p.batch

\* the queue as processQueue finds it in this step: with the request of the call
\* being made, if this step is an enqueue
Waiting ==
  IF NewCall /\ hist'[Len(calls')].enqueued
  THEN Append(purchaseQueue,
              [userId |-> calls'[Len(calls')].userId, timestamp |-> now,
               id |-> Len(calls')])
  ELSE purchaseQueue

\* within a pass: the requests before the current one are processed and
\* settled, the current one is processed and not yet settled, the later ones
\* are untouched
C31_SettledBeforeNext ==
  \A p \in passes :
    \A i \in DOMAIN p.batch :
      LET h == hist[p.batch[i].id]
      IN /\ i < p.idx => h.processed = 1 /\ h.settled = 1
         /\ i = p.idx => h.processed = 1 /\ h.settled = 0
         /\ i > p.idx => h.processed = 0 /\ h.settled = 0

\* C31: a pass takes at most BatchSize requests (50 in the source), from the
\* head of the queue and in queue order, and within a pass the completion handle
\* of each request is settled after its own atomic step and before the atomic
\* step of the next request of the batch.
C31_BatchFromHeadSettledInOrder ==
  /\ [] C31_SettledBeforeNext
  /\ [][ \A p \in passes' :
           PassStarts(p) =>
             /\ Len(p.batch) <= BatchSize
             /\ p.batch \o purchaseQueue' = Waiting ]_vars

\* a pass took a full batch and left a request in the queue; it has settled the
\* first request of the batch and run the atomic step of the second
C31_Witness ==
  \E p \in passes :
    /\ Len(p.batch) = BatchSize
    /\ p.idx = 2
    /\ Len(purchaseQueue) = 1
    /\ hist[p.batch[1].id].settled = 1
    /\ hist[p.batch[2].id].processed = 1

\* work is waiting and no pass is running
IdleWithWork == Len(purchaseQueue) > 0 /\ ~ isProcessingQueue

\* C32 as stated: whenever the queue is non-empty and no pass is running, a pass
\* is eventually started.
C32_PassEventuallyStarted == IdleWithWork ~> isProcessingQueue

\* every pass ends with the flag cleared, and from some point on the queue is
\* empty and the processor idle
C32_QueueDrains ==
  /\ [] (isProcessingQueue <=> passes # {})
  /\ <>[] (Len(purchaseQueue) = 0 /\ ~ isProcessingQueue /\ immediates = 0)

\* C32 (amended): whenever the queue is non-empty and no pass is running, a pass
\* is eventually started unless configureFlashSale empties the queue first; the
\* flag is cleared when a pass ends, and once no more requests are enqueued the
\* queue becomes empty and stays empty.
C32_NeverIdleWithWork ==
  /\ \A e \in 0 .. MaxConfigs :
       (IdleWithWork /\ epoch = e) ~> (isProcessingQueue \/ epoch > e)
  /\ C32_QueueDrains

\* a pass has ended with requests still waiting: the flag is cleared and the
\* follow-up is scheduled
C32_Witness ==
  /\ IdleWithWork
  /\ immediates > 0
  /\ passes = {}
  /\ \E id \in Queued : hist[id].settled = 1

\* ----------------------------------------------------------------- limiter
\* the calls of u that passed the limiter, whatever became of their timestamps
RecordedCalls(u) == { id \in DOMAIN calls : calls[id].userId = u /\ Recorded(id) }

\* those of them made less than a window ago: what a limiter that never swept
\* and never pruned would count now
UnsweptYoung(u) ==
  { id \in RecordedCalls(u) : now - calls[id].startTime < rateWindow }

\* C33: a step removes from the limiter's map only timestamps that are a full
\* window old, and an identity only when all of its timestamps are; so in every
\* state a rate-limit check of any identity gives the result it would give had
\* no sweep ever run, namely whether fewer than maxRequestsPerMinute of its
\* requests passed the limiter within the last window.
C33_SweepTransparent ==
  /\ [] \A u \in Users :
          checkRateLimit(u).ok
            <=> Cardinality(UnsweptYoung(u)) < maxRequestsPerMinute
  /\ [][ \A u \in DOMAIN userRequestTimestamps :
           LET young == YoungTimestamps(u)
           IN IF u \in DOMAIN userRequestTimestamps'
              THEN LET kept == SelectSeq(userRequestTimestamps'[u],
                                         LAMBDA ts : now - ts < rateWindow)
                   IN /\ Len(kept) >= Len(young)
                      /\ SubSeq(kept, 1, Len(young)) = young
              ELSE young = << >> ]_vars

\* a sweep has removed an identity whose only timestamp had expired, and has
\* kept the live timestamps of the other
C33_Witness ==
  \E u, v \in Users :
    /\ RecordedCalls(u) # {}
    /\ u \notin DOMAIN userRequestTimestamps
    /\ v \in DOMAIN userRequestTimestamps
    /\ Len(userRequestTimestamps[v]) = 2
    /\ Cardinality(UnsweptYoung(v)) = 2

\* ----------------------------------------------------------------- breaker
\* C34: in every reachable state the breaker is CLOSED exactly when its failure
\* count is below failureThreshold, and OPEN or HALF_OPEN only with a count of
\* failureThreshold or more, also after a request that started in one phase has
\* completed in another.
C34_PhaseMatchesCount ==
  /\ circuitBreaker.state \in BreakerStates
  /\ circuitBreaker.state = "CLOSED"
       <=> circuitBreaker.failures < failureThreshold
  /\ circuitBreaker.state \in {"OPEN", "HALF_OPEN"}
       <=> circuitBreaker.failures >= failureThreshold
  /\ circuitBreaker.failures >= 0

\* a request that went in while the breaker was CLOSED has returned after the
\* breaker opened on five failures and a later request took it to HALF_OPEN:
\* the breaker is CLOSED again with a count of 0, the later request still waiting
C34_Witness ==
  /\ circuitBreaker.state = "CLOSED"
  /\ circuitBreaker.failures = 0
  /\ Len(calls) > failureThreshold + 1
  /\ calls[1].pc = "returned"
  /\ \E probe \in DOMAIN calls :
       /\ probe > failureThreshold + 1
       /\ calls[probe].pc \in {"awaiting", "resolved"}
       /\ calls[probe].startTime > calls[1].startTime + resetTimeout
       /\ \A j \in DOMAIN calls : j \notin {1, probe} => calls[j].pc = "thrown"

\* C35: while the breaker is CLOSED its failure count never decreases and a
\* purchase that returns with success leaves the breaker as it is; the count
\* goes down only to 0 and only when a success returns while the breaker is
\* HALF_OPEN; and a failure recorded at failureThreshold - 1 opens the breaker,
\* whatever successes came in between.
C35_CountSurvivesSuccess ==
  [][ /\ circuitBreaker.state = "CLOSED"
           => circuitBreaker'.failures >= circuitBreaker.failures
      /\ ( circuitBreaker.state = "CLOSED" /\ ReturningNow # {} )
           => circuitBreaker' = circuitBreaker
      /\ circuitBreaker'.failures < circuitBreaker.failures
           => /\ ProbeSucceeds
              /\ circuitBreaker'.failures = 0
              /\ circuitBreaker'.state = "CLOSED"
      /\ ( FailingNow # {} /\ circuitBreaker.failures = failureThreshold - 1 )
           => circuitBreaker'.state = "OPEN" ]_vars

\* the breaker opened on its fifth failure although a purchase returned with
\* success between two of the failures
C35_Witness ==
  /\ circuitBreaker.state = "OPEN"
  /\ circuitBreaker.failures = failureThreshold
  /\ now = 0
  /\ \E i, j, k \in DOMAIN calls :
       /\ i < j /\ j < k
       /\ calls[i].pc = "thrown" /\ calls[k].pc = "thrown"
       /\ calls[j].pc = "returned"
       /\ hist[j].settled = 1 /\ hist[j].outcome = "Success"

\* ---------------------------------------------------------- running totals
\* no request is in flight: the queue is empty, no pass is running and every
\* attemptPurchase has returned or thrown
Quiescent ==
  /\ purchaseQueue = << >>
  /\ passes = {} /\ immediates = 0
  /\ \A id \in DOMAIN calls : calls[id].pc \in {"returned", "thrown"}

\* C36: whenever no request is in flight, successfulPurchases + failedPurchases
\* equals totalRequests.
C36_TotalsAddUp ==
  Quiescent =>
    metrics.successfulPurchases + metrics.failedPurchases = metrics.totalRequests

\* C37: a configureFlashSale call leaves the breaker (phase, failure count,
\* lastFailureTime) and every identity's limiter window as they were: an identity
\* the gate would turn away CircuitOpen or RateLimited before the call is turned
\* away the same way right after it.
C37_ReconfigureKeepsBreakerAndLimiter ==
  [][ Reconfigured =>
        /\ UNCHANGED << circuitBreaker, userRequestTimestamps >>
        /\ \A u \in Users :
             /\ checkRateLimit(u)'.ok = checkRateLimit(u).ok
             /\ gate(u) \in {"CircuitOpen", "RateLimited"} => gate(u)' = gate(u) ]_vars

\* right after a reconfigure of a sale that had sold a unit, the breaker is
\* still OPEN and cooling down and an identity is still rate-limited
C37_Witness ==
  /\ epoch = MaxGateConfigs
  /\ metrics = InitialMetrics
  /\ \E id \in Queued : hist[id].outcome = "Success"
  /\ circuitBreaker.state = "OPEN"
  /\ \E u \in Users : gate(u) = "CircuitOpen" /\ ~ checkRateLimit(u).ok

\* ------------------------------------------------------- limiter: windows
PreValidationKinds == {"SaleNotStarted", "SaleEnded", "AlreadyPurchased", "SoldOut"}

C38_WindowBounded ==
  \A u \in DOMAIN userRequestTimestamps :
    Len(userRequestTimestamps[u]) <= maxRequestsPerMinute

\* C38: a stored limiter window never holds more than maxRequestsPerMinute
\* timestamps (10 in the source); a call rejected RateLimited or CircuitOpen
\* leaves every window as it was; a call that passes the limiter and is then
\* rejected by a pre-validation has its time recorded and counts as one more
\* request of its identity within the window.
C38_WindowCountsWhatPassed ==
  /\ [] C38_WindowBounded
  /\ [][ NewCall =>
           LET new == calls'[Len(calls')]
               u == new.userId
               stored == userRequestTimestamps'[u]
           IN /\ new.result \in {"RateLimited", "CircuitOpen"}
                   => userRequestTimestamps' = userRequestTimestamps
              /\ ( new.pc = "thrown" /\ new.result \in PreValidationKinds )
                   => /\ u \in DOMAIN userRequestTimestamps'
                      /\ stored[Len(stored)] = now
                      /\ Len(stored) = Len(YoungTimestamps(u)) + 1 ]_vars

\* an identity's call was rejected by a pre-validation and took the last place
\* of its window; its next call was rejected RateLimited and added nothing
C38_Witness ==
  /\ Len(calls) = 2
  /\ calls[1].userId = calls[2].userId
  /\ calls[1].pc = "thrown" /\ calls[1].result \in PreValidationKinds
  /\ calls[2].pc = "thrown" /\ calls[2].result = "RateLimited"
  /\ Len(userRequestTimestamps[calls[1].userId]) = maxRequestsPerMinute

\* ------------------------------------------------------------------ epochs
\* C39: a request granted a unit was admitted in the epoch in which it is
\* granted: a request admitted before a configureFlashSale call gets nothing of
\* the stock that call configured.
C39_EpochsIsolated ==
  \A id \in Queued :
    hist[id].outcome = "Success" => hist[id].procEpoch = hist[id].enqEpoch

====
